---- MODULE Spec2Model ----
(***************************************************************************)
(* Model of latents.py: the Latent base layer and DiagonalGaussianLatent   *)
(* (build, call, log_prob, sample_kl, analytic_kl).                        *)
(*                                                                         *)
(* Numbers are fixed-point: the integer n stands for n/1000.  A tensor of  *)
(* shape (batch, k) is a sequence of batch rows, each a sequence of k      *)
(* numbers; a per-row result (K.sum(..., axis=-1)) is a sequence of batch  *)
(* numbers.  An attribute that was never assigned holds the empty          *)
(* sequence <<>> (every tensor has at least one row).                      *)
(***************************************************************************)
EXTENDS Integers, Sequences, FiniteSets, TLC

VARIABLES
    dim,            \* Latent.dim
    prior,          \* Latent.prior: the class of the prior object
    built,          \* Layer.built
    dense_mean,     \* DiagonalGaussianLatent.dense_mean, shape (input_dim, dim)
    dense_log_var,  \* DiagonalGaussianLatent.dense_log_var, shape (input_dim, dim)
    mean,           \* self.mean
    log_var,        \* self.log_var
    sample,         \* self.sample
    lastOp,         \* the method that ran last
    arg,            \* its argument
    ret,            \* its return value (<<>> when it raised)
    err,            \* the exception it raised ("" when it returned)
    lastX,          \* history: the x of the most recent completed call()
    lastEps,        \* history: the K.random_normal draw of that call
    ncalls,         \* history: number of call() invocations on the built layer
    pc,             \* per thread: the line of call() it is about to execute
    tx,             \* per thread: the parameter x of its call()
    tstd,           \* per thread: the local std
    teps,           \* per thread: the local eps
    tid,            \* per thread: history, the number of its invocation
    meanBy,         \* history: the invocation that assigned self.mean
    logvarBy,       \* history: the invocation that assigned self.log_var
    sampleBy,       \* history: the invocation that assigned self.sample
    overlapped      \* history: some call() began while another was running

unitVars  == <<dim, prior, built, dense_mean, dense_log_var>>
cacheVars == <<mean, log_var, sample>>
opVars    == <<lastOp, arg, ret, err>>
histVars  == <<lastX, lastEps, ncalls>>
thrVars   == <<pc, tx, tstd, teps, tid>>
tagVars   == <<meanBy, logvarBy, sampleBy, overlapped>>
vars == <<unitVars, cacheVars, opVars, histVars, thrVars, tagVars>>

(***************************************************************************)
(* Bounds and input sets                                                   *)
(***************************************************************************)
\* call() is invoked at most MaxCalls times in a behaviour
MaxCalls == 2

\* 1.0 in fixed point
Fix(n) == n * 1000

\* (batch, input_dim, dim) triples the unit is exercised with
Configs == {<<1, 1, 1>>, <<2, 1, 1>>, <<1, 2, 1>>, <<1, 1, 2>>}
\* (input_dim, dim) pairs a unit is built with
Shapes == {<<c[2], c[3]>> : c \in Configs}
\* batch sizes
BatchSizes == {c[1] : c \in Configs}
\* entries of the input batch x
InputVals == {Fix(0), Fix(1)}
\* entries the initializer gives the two kernels
WeightVals == {Fix(-1), Fix(1)}
\* values K.random_normal draws
EpsVals == {Fix(-1), Fix(0), Fix(1)}
\* entries of the points log_prob is queried at
PointVals == {Fix(0), Fix(1)}
\* classes of prior objects
Priors == {"IsoGaussianPrior", "OtherPrior"}
\* input shapes handed to compute_output_shape
QueryShapes == {<<1, 1>>, <<2, 2>>, <<2, 3, 1>>}
\* input shapes handed to build
BuildShapes == {<<1, s[1]>> : s \in Shapes}
Threads == {1, 2}

Unset == <<>>

\* all tensors of shape (rows, cols) with entries in vals
Tensors(rows, cols, vals) == [1..rows -> [1..cols -> vals]]

(***************************************************************************)
(* The backend's arithmetic (keras.backend), on the fixed-point grid       *)
(***************************************************************************)
\* a / b rounded to the nearest integer, ties away from zero (b > 0)
RoundDiv(a, b) ==
    IF a >= 0 THEN (2 * a + b) \div (2 * b)
              ELSE -((2 * (-a) + b) \div (2 * b))

FMul(a, b) == RoundDiv(a * b, Fix(1))
FDiv(a, b) == RoundDiv(a * Fix(1), b)

\* exp at the multiples of 0.5, rounded to the grid: k |-> exp(k/2)
ExpTable ==
    (-8 :> 18) @@ (-7 :> 30) @@ (-6 :> 50) @@ (-5 :> 82) @@ (-4 :> 135) @@
    (-3 :> 223) @@ (-2 :> 368) @@ (-1 :> 607) @@ (0 :> 1000) @@ (1 :> 1649) @@
    (2 :> 2718) @@ (3 :> 4482) @@ (4 :> 7389) @@ (5 :> 12182) @@ (6 :> 20086) @@
    (7 :> 33115) @@ (8 :> 54598)

\* K.exp of a scalar; its arguments here (log_var and log_var / 2 with integral
\* log_var) are all multiples of 0.5
Exp(v) == ExpTable[v \div (Fix(1) \div 2)]

RECURSIVE SumSeq(_)
SumSeq(s) == IF s = <<>> THEN 0 ELSE Head(s) + SumSeq(Tail(s))

\* K.sum(t, axis=-1)
SumLast(t) == [b \in 1..Len(t) |-> SumSeq(t[b])]

\* K.exp(t), elementwise
TExp(t) == [b \in 1..Len(t) |-> [j \in 1..Len(t[b]) |-> Exp(t[b][j])]]
\* t / 2, elementwise
THalf(t) == [b \in 1..Len(t) |-> [j \in 1..Len(t[b]) |-> RoundDiv(t[b][j], 2)]]
\* t ** 2, elementwise
TSquare(t) == [b \in 1..Len(t) |-> [j \in 1..Len(t[b]) |-> FMul(t[b][j], t[b][j])]]
\* s + t, s - t, s * t, s / t, elementwise on tensors of one shape
TAdd(s, t) == [b \in 1..Len(s) |-> [j \in 1..Len(s[b]) |-> s[b][j] + t[b][j]]]
TSub(s, t) == [b \in 1..Len(s) |-> [j \in 1..Len(s[b]) |-> s[b][j] - t[b][j]]]
TMul(s, t) == [b \in 1..Len(s) |-> [j \in 1..Len(s[b]) |-> FMul(s[b][j], t[b][j])]]
TDiv(s, t) == [b \in 1..Len(s) |-> [j \in 1..Len(s[b]) |-> FDiv(s[b][j], t[b][j])]]

\* K.dot(x, w): x of shape (batch, input_dim), w of shape (input_dim, k)
Dot(x, w) ==
    [b \in 1..Len(x) |->
        [j \in 1..Len(w[1]) |->
            SumSeq([i \in 1..Len(w) |-> FMul(x[b][i], w[i][j])])]]

\* K.shape(t)
Shape(t) == <<Len(t), Len(t[1])>>

(***************************************************************************)
(* priors.py (not among the sources): the prior's log-density              *)
(***************************************************************************)
\* IsoGaussianPrior.log_prob(x) = -1/2 sum(x^2) - (dim/2) log(2 pi), per row;
\* the other prior class is a unit-variance Gaussian centred at 1
PriorLogProb(p, x) ==
    LET centre == IF p = "IsoGaussianPrior" THEN Fix(0) ELSE Fix(1)
        diff   == [b \in 1..Len(x) |-> [j \in 1..Len(x[b]) |-> x[b][j] - centre]]
        sq     == SumLast(TSquare(diff))
    IN  [b \in 1..Len(x) |->
            -RoundDiv(sq[b], 2) - RoundDiv(Len(x[b]) * 1838, 2)]

(***************************************************************************)
(* Latent and DiagonalGaussianLatent: the values the methods compute       *)
(***************************************************************************)
\* variant: keeps only the batch axis, tuple(input_shape[:1]) + (self.dim,)
compute_output_shape_BatchOnly(d, input_shape) ==
    SubSeq(input_shape, 1, 1) \o <<d>>

\* Latent.compute_output_shape: tuple(input_shape[:-1]) + (self.dim,)
compute_output_shape(d, input_shape) ==
    SubSeq(input_shape, 1, Len(input_shape) - 1) \o <<d>>

\* variant: std = K.exp(self.log_var), the variance taken for the deviation
Std_NoHalf(lv) == TExp(lv)

\* call(), line 48: std = K.exp(self.log_var / 2)
Std(lv) == TExp(THalf(lv))

\* call(), line 55: self.mean + eps * std
Reparam(m, eps, std) == TAdd(m, TMul(eps, std))

\* log_prob(x) with self.mean = m, self.log_var = lv
log_prob(m, lv, x) ==
    LET variance == TExp(lv)
        log_det  == SumLast(lv)
        x_diff   == TSub(x, m)
        quad     == SumLast(TMul(TDiv(x_diff, variance), x_diff))
    IN  [b \in 1..Len(x) |-> RoundDiv(-(quad[b] + log_det[b]), 2)]

\* variant: the prior's density is taken at the mean instead of the sample
sample_kl_PriorAtMean(p, m, lv, s) ==
    LET own == log_prob(m, lv, s)
        ref == PriorLogProb(p, m)
    IN  [b \in 1..Len(s) |-> own[b] - ref[b]]

\* sample_kl() with the cached m, lv, s and a prior of class p
sample_kl(p, m, lv, s) ==
    LET own == log_prob(m, lv, s)
        ref == PriorLogProb(p, s)
    IN  [b \in 1..Len(s) |-> own[b] - ref[b]]

\* variant: the "- self.dim" term is dropped
analytic_kl_NoDim(d, m, lv) ==
    LET log_det_p1   == SumLast(lv)
        trace_c1     == SumLast(TExp(lv))
        mean_sq_norm == SumLast(TSquare(m))
    IN  [b \in 1..Len(lv) |->
            RoundDiv(-log_det_p1[b] + trace_c1[b] + mean_sq_norm[b], 2)]

\* variant: log_det_p1 enters with the wrong sign
analytic_kl_PlusLogDet(d, m, lv) ==
    LET log_det_p1   == SumLast(lv)
        trace_c1     == SumLast(TExp(lv))
        mean_sq_norm == SumLast(TSquare(m))
    IN  [b \in 1..Len(lv) |->
            RoundDiv(log_det_p1[b] - Fix(d) + trace_c1[b] + mean_sq_norm[b], 2)]

\* analytic_kl(), the IsoGaussianPrior branch, lines 77-80
analytic_kl(d, m, lv) ==
    LET log_det_p1   == SumLast(lv)
        trace_c1     == SumLast(TExp(lv))
        mean_sq_norm == SumLast(TSquare(m))
    IN  [b \in 1..Len(lv) |->
            RoundDiv(-log_det_p1[b] - Fix(d) + trace_c1[b] + mean_sq_norm[b], 2)]

(***************************************************************************)
(* Initial state: Latent.__init__(dim, prior)                              *)
(***************************************************************************)
Init ==
    /\ dim \in {s[2] : s \in Shapes}
    /\ prior \in Priors
    /\ built = FALSE
    /\ dense_mean = Unset
    /\ dense_log_var = Unset
    /\ mean = Unset
    /\ log_var = Unset
    /\ sample = Unset
    /\ lastOp = "__init__"
    /\ arg = <<>>
    /\ ret = <<>>
    /\ err = ""
    /\ lastX = <<>>
    /\ lastEps = <<>>
    /\ ncalls = 0
    /\ pc = [t \in Threads |-> "idle"]
    /\ tx = [t \in Threads |-> <<>>]
    /\ tstd = [t \in Threads |-> <<>>]
    /\ teps = [t \in Threads |-> <<>>]
    /\ tid = [t \in Threads |-> 0]
    /\ meanBy = 0
    /\ logvarBy = 0
    /\ sampleBy = 0
    /\ overlapped = FALSE

(***************************************************************************)
(* The methods, each run to completion                                     *)
(***************************************************************************)
\* build(input_shape): creates the two kernels of shape (input_dim, dim)
Build(input_shape) ==
    LET input_dim == input_shape[Len(input_shape)] IN
    /\ ~built
    /\ <<input_dim, dim>> \in Shapes
    /\ dense_mean' \in Tensors(input_dim, dim, WeightVals)
    /\ dense_log_var' \in Tensors(input_dim, dim, WeightVals)
    /\ built' = TRUE
    /\ lastOp' = "build"
    /\ arg' = input_shape
    /\ ret' = <<>>
    /\ err' = ""
    /\ UNCHANGED <<dim, prior, cacheVars, histVars, thrVars, tagVars>>

\* variant: self.sample is assigned only while it is unset
Call_KeepsFirstSample(x, eps) ==
    /\ IF ~built
       THEN /\ err' = "AttributeError"
            /\ ret' = <<>>
            /\ UNCHANGED <<cacheVars, histVars>>
       ELSE /\ ncalls < MaxCalls
            /\ Len(x[1]) = Len(dense_mean)
            /\ Shape(eps) = <<Len(x), dim>>
            /\ mean' = Dot(x, dense_mean)
            /\ log_var' = Dot(x, dense_log_var)
            /\ sample' = IF sample = Unset
                         THEN Reparam(mean', eps, Std(log_var'))
                         ELSE sample
            /\ ret' = sample'
            /\ err' = ""
            /\ lastX' = x
            /\ lastEps' = eps
            /\ ncalls' = ncalls + 1
    /\ lastOp' = "call"
    /\ arg' = x
    /\ UNCHANGED <<unitVars, thrVars, tagVars>>

\* call(x) with eps the value K.random_normal returns
Call(x, eps) ==
    /\ IF ~built
       THEN \* line 44 reads self.dense_mean, which build() never assigned
            /\ err' = "AttributeError"
            /\ ret' = <<>>
            /\ UNCHANGED <<cacheVars, histVars>>
       ELSE /\ ncalls < MaxCalls
            /\ Len(x[1]) = Len(dense_mean)
            /\ Shape(eps) = <<Len(x), dim>>
            /\ mean' = Dot(x, dense_mean)
            /\ log_var' = Dot(x, dense_log_var)
            /\ sample' = Reparam(mean', eps, Std(log_var'))
            /\ ret' = sample'
            /\ err' = ""
            /\ lastX' = x
            /\ lastEps' = eps
            /\ ncalls' = ncalls + 1
    /\ lastOp' = "call"
    /\ arg' = x
    /\ UNCHANGED <<unitVars, thrVars, tagVars>>

\* variant: log_prob keeps its x_diff in self.mean
LogProb_Clobbers(x) ==
    /\ IF log_var = Unset
       THEN /\ err' = "AttributeError"
            /\ ret' = <<>>
            /\ mean' = mean
       ELSE /\ Shape(x) = Shape(mean)
            /\ ret' = log_prob(mean, log_var, x)
            /\ err' = ""
            /\ mean' = [b \in 1..Len(x) |-> [j \in 1..dim |-> x[b][j] - mean[b][j]]]
    /\ lastOp' = "log_prob"
    /\ arg' = x
    /\ UNCHANGED <<unitVars, log_var, sample, histVars, thrVars, tagVars>>

\* log_prob(x)
LogProb(x) ==
    /\ IF log_var = Unset
       THEN \* line 61 reads self.log_var, which no call() assigned
            /\ err' = "AttributeError"
            /\ ret' = <<>>
       ELSE /\ Shape(x) = Shape(mean)
            /\ ret' = log_prob(mean, log_var, x)
            /\ err' = ""
    /\ lastOp' = "log_prob"
    /\ arg' = x
    /\ UNCHANGED <<unitVars, cacheVars, histVars, thrVars, tagVars>>

\* variant: an unset sample is read as zeros
SampleKL_Default ==
    /\ IF sample = Unset
       THEN /\ ret' = <<0>>
            /\ err' = ""
       ELSE /\ ret' = sample_kl(prior, mean, log_var, sample)
            /\ err' = ""
    /\ lastOp' = "sample_kl"
    /\ arg' = <<>>
    /\ UNCHANGED <<unitVars, cacheVars, histVars, thrVars, tagVars>>

\* sample_kl()
SampleKL ==
    /\ IF sample = Unset
       THEN \* line 68 reads self.sample, which no call() assigned
            /\ err' = "AttributeError"
            /\ ret' = <<>>
       ELSE /\ ret' = sample_kl(prior, mean, log_var, sample)
            /\ err' = ""
    /\ lastOp' = "sample_kl"
    /\ arg' = <<>>
    /\ UNCHANGED <<unitVars, cacheVars, histVars, thrVars, tagVars>>

\* variant: no isinstance check, the closed form is used for every prior
AnalyticKL_NoPriorCheck ==
    /\ IF log_var = Unset
       THEN /\ err' = "AttributeError"
            /\ ret' = <<>>
       ELSE /\ ret' = analytic_kl(dim, mean, log_var)
            /\ err' = ""
    /\ lastOp' = "analytic_kl"
    /\ arg' = <<>>
    /\ UNCHANGED <<unitVars, cacheVars, histVars, thrVars, tagVars>>

\* analytic_kl()
AnalyticKL ==
    /\ IF prior = "IsoGaussianPrior"
       THEN IF log_var = Unset
            THEN \* line 77 reads self.log_var, which no call() assigned
                 /\ err' = "AttributeError"
                 /\ ret' = <<>>
            ELSE /\ ret' = analytic_kl(dim, mean, log_var)
                 /\ err' = ""
       ELSE \* line 82
            /\ err' = "TypeError"
            /\ ret' = <<>>
    /\ lastOp' = "analytic_kl"
    /\ arg' = <<>>
    /\ UNCHANGED <<unitVars, cacheVars, histVars, thrVars, tagVars>>

\* compute_output_shape(input_shape)
ComputeOutputShape(input_shape) ==
    /\ ret' = compute_output_shape(dim, input_shape)
    /\ err' = ""
    /\ lastOp' = "compute_output_shape"
    /\ arg' = input_shape
    /\ UNCHANGED <<unitVars, cacheVars, histVars, thrVars, tagVars>>

\* the batches a caller hands to call()
CallInputs ==
    UNION {Tensors(c[1], c[2], InputVals) : c \in {c \in Configs : c[3] = dim}}
\* the draws of K.random_normal(shape=(rows, dim))
NoiseDraws(rows) == Tensors(rows, dim, EpsVals)
\* the points a caller hands to log_prob(): constant tensors of shape (batch, dim)
LatentPoints ==
    {[b \in 1..n |-> [j \in 1..dim |-> v]] : n \in BatchSizes, v \in PointVals}

Next ==
    \/ \E s \in BuildShapes : Build(s)
    \/ \E x \in CallInputs : \E eps \in NoiseDraws(Len(x)) : Call(x, eps)
    \/ \E x \in LatentPoints : LogProb(x)
    \/ SampleKL
    \/ AnalyticKL
    \/ \E s \in QueryShapes : ComputeOutputShape(s)

Spec == Init /\ [][Next]_vars

(***************************************************************************)
(* call() line by line, for two threads that share one unit                *)
(***************************************************************************)
AllIdle == \A t \in Threads : pc[t] = "idle"

\* the batches the threads hand to call(): one row each
RaceInputs == Tensors(1, Len(dense_mean), InputVals)

\* a thread enters call(x)
CallEnter(t, x) ==
    /\ pc[t] = "idle"
    /\ built
    /\ ncalls < MaxCalls
    /\ pc' = [pc EXCEPT ![t] = "l44"]
    /\ tx' = [tx EXCEPT ![t] = x]
    /\ tid' = [tid EXCEPT ![t] = ncalls + 1]
    /\ ncalls' = ncalls + 1
    /\ overlapped' = (overlapped \/ \E u \in Threads \ {t} : pc[u] # "idle")
    /\ UNCHANGED <<unitVars, cacheVars, opVars, lastX, lastEps, tstd, teps,
                   meanBy, logvarBy, sampleBy>>

\* line 44: self.mean = K.dot(x, self.dense_mean)
CallMean(t) ==
    /\ pc[t] = "l44"
    /\ mean' = Dot(tx[t], dense_mean)
    /\ meanBy' = tid[t]
    /\ pc' = [pc EXCEPT ![t] = "l45"]
    /\ UNCHANGED <<unitVars, log_var, sample, opVars, histVars, tx, tstd, teps, tid,
                   logvarBy, sampleBy, overlapped>>

\* variant: line 45 assigns self.log_var only while it is unset
CallLogVar_KeepsFirst(t) ==
    /\ pc[t] = "l45"
    /\ log_var' = IF log_var = Unset THEN Dot(tx[t], dense_log_var) ELSE log_var
    /\ logvarBy' = IF log_var = Unset THEN tid[t] ELSE logvarBy
    /\ pc' = [pc EXCEPT ![t] = "l48"]
    /\ UNCHANGED <<unitVars, mean, sample, opVars, histVars, tx, tstd, teps, tid,
                   meanBy, sampleBy, overlapped>>

\* line 45: self.log_var = K.dot(x, self.dense_log_var)
CallLogVar(t) ==
    /\ pc[t] = "l45"
    /\ log_var' = Dot(tx[t], dense_log_var)
    /\ logvarBy' = tid[t]
    /\ pc' = [pc EXCEPT ![t] = "l48"]
    /\ UNCHANGED <<unitVars, mean, sample, opVars, histVars, tx, tstd, teps, tid,
                   meanBy, sampleBy, overlapped>>

\* line 48: std = K.exp(self.log_var / 2)
CallStd(t) ==
    /\ pc[t] = "l48"
    /\ tstd' = [tstd EXCEPT ![t] = Std(log_var)]
    /\ pc' = [pc EXCEPT ![t] = "l51"]
    /\ UNCHANGED <<unitVars, cacheVars, opVars, histVars, tx, teps, tid, tagVars>>

\* lines 51-52: eps = K.random_normal(shape=(K.shape(self.mean)[0], self.dim))
CallEps(t, eps) ==
    /\ pc[t] = "l51"
    /\ Shape(eps) = <<Len(mean), dim>>
    /\ teps' = [teps EXCEPT ![t] = eps]
    /\ pc' = [pc EXCEPT ![t] = "l55"]
    /\ UNCHANGED <<unitVars, cacheVars, opVars, histVars, tx, tstd, tid, tagVars>>

\* line 55: self.sample = self.mean + eps * std
CallSample(t) ==
    /\ pc[t] = "l55"
    /\ sample' = Reparam(mean, teps[t], tstd[t])
    /\ sampleBy' = tid[t]
    /\ pc' = [pc EXCEPT ![t] = "l57"]
    /\ UNCHANGED <<unitVars, mean, log_var, opVars, histVars, tx, tstd, teps, tid,
                   meanBy, logvarBy, overlapped>>

\* line 57: return self.sample
CallReturn(t) ==
    /\ pc[t] = "l57"
    /\ ret' = sample
    /\ err' = ""
    /\ lastOp' = "call"
    /\ arg' = tx[t]
    /\ lastX' = tx[t]
    /\ lastEps' = teps[t]
    /\ pc' = [pc EXCEPT ![t] = "idle"]
    /\ UNCHANGED <<unitVars, cacheVars, ncalls, tx, tstd, teps, tid, tagVars>>

\* a KL query that follows the calls
QueryWhenIdle ==
    /\ AllIdle
    /\ ncalls > 0
    /\ (SampleKL \/ AnalyticKL)

\* the unit after __init__(1, prior) and build((batch, 1))
InitRace ==
    /\ dim = 1
    /\ prior \in Priors
    /\ built = TRUE
    /\ dense_mean \in Tensors(1, 1, WeightVals)
    /\ dense_log_var \in Tensors(1, 1, WeightVals)
    /\ mean = Unset
    /\ log_var = Unset
    /\ sample = Unset
    /\ lastOp = "build"
    /\ arg = <<1, 1>>
    /\ ret = <<>>
    /\ err = ""
    /\ lastX = <<>>
    /\ lastEps = <<>>
    /\ ncalls = 0
    /\ pc = [t \in Threads |-> "idle"]
    /\ tx = [t \in Threads |-> <<>>]
    /\ tstd = [t \in Threads |-> <<>>]
    /\ teps = [t \in Threads |-> <<>>]
    /\ tid = [t \in Threads |-> 0]
    /\ meanBy = 0
    /\ logvarBy = 0
    /\ sampleBy = 0
    /\ overlapped = FALSE

NextRace ==
    \/ \E t \in Threads : \E x \in RaceInputs : CallEnter(t, x)
    \/ \E t \in Threads : CallMean(t)
    \/ \E t \in Threads : CallLogVar(t)
    \/ \E t \in Threads : CallStd(t)
    \/ \E t \in Threads : \E eps \in NoiseDraws(1) : CallEps(t, eps)
    \/ \E t \in Threads : CallSample(t)
    \/ \E t \in Threads : CallReturn(t)
    \/ QueryWhenIdle

SpecRace == InitRace /\ [][NextRace]_vars

(***************************************************************************)
(* Properties                                                              *)
(***************************************************************************)
QueryOps == {"log_prob", "sample_kl", "analytic_kl"}
Returned(op) == lastOp = op /\ err = ""
Rows(t) == 1..Len(t)
ZeroRow(r) == \A j \in 1..Len(r) : r[j] = 0
HasShape(t, rows, cols) == Len(t) = rows /\ \A b \in 1..rows : Len(t[b]) = cols

\* C1: on a unit whose prior is not an IsoGaussianPrior, analytic_kl always
\* raises TypeError and returns nothing, whatever calls came before.
C1_AnalyticKLRejectsOtherPrior ==
    (lastOp = "analytic_kl" /\ prior # "IsoGaussianPrior")
        => (err = "TypeError" /\ ret = <<>>)

C1_Witness ==
    /\ lastOp = "analytic_kl"
    /\ prior = "OtherPrior"
    /\ ncalls >= 2
    /\ err = "TypeError"

\* C2 as stated: before any call(), each of log_prob, sample_kl and
\* analytic_kl fails with the error of an unset attribute and returns nothing.
C2_Original ==
    (lastOp \in QueryOps /\ ncalls = 0)
        => (err = "AttributeError" /\ ret = <<>>)

\* C2 amended: before any call(), log_prob and sample_kl fail with the error
\* of an unset attribute, analytic_kl fails with it when the prior is an
\* IsoGaussianPrior and with TypeError otherwise; none of them returns a value.
C2_FailsBeforeFirstCall ==
    (lastOp \in QueryOps /\ ncalls = 0)
        => /\ ret = <<>>
           /\ err = IF lastOp = "analytic_kl" /\ prior # "IsoGaussianPrior"
                    THEN "TypeError"
                    ELSE "AttributeError"

C2_Witness ==
    /\ ncalls = 0
    /\ built
    /\ lastOp = "sample_kl"
    /\ err = "AttributeError"
    /\ ret = <<>>

\* C3: after one or more calls, the cached mean, log_var and sample are
\* exactly those of the most recent call(), and log_prob, sample_kl and
\* analytic_kl return the values computed from them.
C3_CacheIsMostRecentCall ==
    ncalls > 0 =>
        LET m  == Dot(lastX, dense_mean)
            lv == Dot(lastX, dense_log_var)
            s  == Reparam(m, lastEps, Std(lv))
        IN  /\ mean = m
            /\ log_var = lv
            /\ sample = s
            /\ Returned("log_prob") => ret = log_prob(m, lv, arg)
            /\ Returned("sample_kl") => ret = sample_kl(prior, m, lv, s)
            /\ Returned("analytic_kl") => ret = analytic_kl(dim, m, lv)

C3_Witness ==
    /\ ncalls >= 2
    /\ Returned("sample_kl")
    /\ \E b \in Rows(sample) : ~ZeroRow(sample[b])

\* C4: call(x) returns, elementwise, mean + eps * exp(log_var / 2) with
\* mean = x . dense_mean and log_var = x . dense_log_var as cached by that
\* call; with eps = 0 it returns the cached mean.
C4_ReparameterizedSample ==
    Returned("call") =>
        /\ mean = Dot(arg, dense_mean)
        /\ log_var = Dot(arg, dense_log_var)
        /\ ret = sample
        /\ HasShape(ret, Len(arg), dim)
        /\ \A b \in Rows(ret) : \A j \in 1..dim :
              ret[b][j] = mean[b][j]
                            + FMul(lastEps[b][j], Exp(RoundDiv(log_var[b][j], 2)))
        /\ (\A b \in Rows(lastEps) : ZeroRow(lastEps[b])) => ret = mean

C4_Witness ==
    /\ Returned("call")
    /\ \E b \in Rows(ret) : \E j \in 1..dim :
          /\ lastEps[b][j] # 0
          /\ log_var[b][j] # 0
          /\ mean[b][j] # 0

\* C5: with an IsoGaussianPrior, analytic_kl returns 0 for every row whose
\* cached mean and log_var are 0 in every dimension.
C5_ZeroKLAtPrior ==
    Returned("analytic_kl") =>
        \A b \in Rows(mean) :
            (ZeroRow(mean[b]) /\ ZeroRow(log_var[b])) => ret[b] = 0

C5_Witness ==
    /\ Returned("analytic_kl")
    /\ dim = 2
    /\ \E b \in Rows(mean) : ZeroRow(mean[b]) /\ ZeroRow(log_var[b]) /\ ret[b] = 0

C7_SampleKLIsLogRatioAtSample ==
    Returned("sample_kl") =>
        /\ Len(ret) = Len(sample)
        /\ \A b \in Rows(sample) :
              LET quad == SumSeq([j \in 1..dim |->
                             FMul(FDiv(sample[b][j] - mean[b][j], Exp(log_var[b][j])),
                                  sample[b][j] - mean[b][j])])
                  own  == RoundDiv(-(quad + SumSeq(log_var[b])), 2)
              IN  ret[b] = own - PriorLogProb(prior, sample)[b]

C7_Witness ==
    /\ Returned("sample_kl")
    /\ prior = "OtherPrior"
    /\ \E b \in Rows(sample) : \E j \in 1..dim :
          sample[b][j] # mean[b][j] /\ log_var[b][j] # 0

\* C8: call() on an input of shape (batch, input_dim) returns a value of
\* shape (batch, dim), caches mean and log_var of that shape, and that is
\* the shape compute_output_shape reports; compute_output_shape keeps all
\* leading axes and replaces only the last one by dim.
C8_OutputShape ==
    /\ Returned("call") =>
          /\ HasShape(arg, Len(arg), Len(dense_mean))
          /\ HasShape(ret, Len(arg), dim)
          /\ HasShape(mean, Len(arg), dim)
          /\ HasShape(log_var, Len(arg), dim)
          /\ compute_output_shape(dim, Shape(arg)) = <<Len(arg), dim>>
    /\ Returned("compute_output_shape") =>
          /\ Len(ret) = Len(arg)
          /\ \A k \in 1..(Len(arg) - 1) : ret[k] = arg[k]
          /\ ret[Len(arg)] = dim

C8_Witness ==
    /\ Returned("compute_output_shape")
    /\ Len(arg) = 3
    /\ dim = 2
    /\ ncalls > 0
    /\ HasShape(sample, 1, 2)

\* C9: when no call() overlapped another, between calls the cached mean,
\* log_var and sample all come from the most recent call(); when two calls
\* interleave on the shared unit a state is reached in which they do not
\* come from one call, and a KL query is answered from it (C9_Witness).
SameCall == meanBy = logvarBy /\ logvarBy = sampleBy

C9_SerializedCallsAreCoherent ==
    (AllIdle /\ ncalls > 0 /\ ~overlapped) =>
        /\ SameCall
        /\ sampleBy = ncalls
        /\ mean = Dot(lastX, dense_mean)
        /\ log_var = Dot(lastX, dense_log_var)
        /\ sample = Reparam(mean, lastEps, Std(log_var))

C9_Witness ==
    /\ AllIdle
    /\ overlapped
    /\ ~SameCall
    /\ lastOp \in {"sample_kl", "analytic_kl"}
    /\ err = ""
    /\ mean # Dot(lastX, dense_mean)

\* C10: log_prob, sample_kl, analytic_kl (returning or raising) and
\* compute_output_shape leave mean, log_var, sample, the kernels, dim and
\* the prior unchanged: only call() and build() write them.
C10_QueriesWriteNothing ==
    [][ (lastOp' \in QueryOps \cup {"compute_output_shape"})
            => UNCHANGED <<unitVars, cacheVars>> ]_vars

C10_Witness ==
    /\ lastOp = "log_prob"
    /\ err = ""
    /\ ncalls > 0
    /\ \E b \in Rows(arg) : arg[b] # mean[b]

====
